---- MODULE Spec2Model ----
(***************************************************************************)
(* Model of model.py: the scoring and monitoring entry points of the       *)
(* consumer-credit classifier.  begin() loads the model artifacts into     *)
(* module globals; score(datum) and metrics(data) each work on a pandas    *)
(* DataFrame, which they extend in place with derived columns.             *)
(*                                                                         *)
(* A DataFrame is [n |-> number of rows, col |-> column name -> values].   *)
(* A Python dict is a sequence of [k, v] items (insertion ordered).        *)
(* Probabilities and the threshold are integer levels on one scale, so     *)
(* that > and < between them are the comparisons of the code.              *)
(***************************************************************************)
EXTENDS Integers, Sequences, FiniteSets, TLC

VARIABLES
    artifacts,  \* content of model_artifacts.pkl
    sklearn,    \* what roc_auc_score does on single-class y_true in this build
    loaded,     \* begin() has run
    globals,    \* explainer, model, threshold, features, rent_ratio, gamma_args, int_rate_mean
    data,       \* the DataFrame object handed to score / metrics (mutated in place)
    orig,       \* the DataFrame as it was read (history)
    lastCall,   \* "none", "score" or "metrics"
    result      \* outcome of the last call: a return value or a raised exception

vars == <<artifacts, sklearn, loaded, globals, data, orig, lastCall, result>>

-----------------------------------------------------------------------------
(* Bounds *)
MaxBatch == 2

NaN == 0 - 1

-----------------------------------------------------------------------------
(* Python dicts and call outcomes *)

EmptyDict == << >>

Keys(d) == { d[i].k : i \in DOMAIN d }

KeyOrder(d) == [ i \in DOMAIN d |-> d[i].k ]

Get(d, key) == d[CHOOSE i \in DOMAIN d : d[i].k = key].v

\* d[key] = val : overwrite in place when the key exists, else append
DictSet(d, key, val) ==
    IF key \in Keys(d)
    THEN [ i \in DOMAIN d |-> IF d[i].k = key THEN [k |-> key, v |-> val] ELSE d[i] ]
    ELSE Append(d, [k |-> key, v |-> val])

RECURSIVE DictFromItems(_)
\* dict(items) for a sequence of [k, v] items
DictFromItems(items) ==
    IF items = << >> THEN EmptyDict
    ELSE DictSet(DictFromItems(SubSeq(items, 1, Len(items) - 1)),
                 items[Len(items)].k, items[Len(items)].v)

Min(a, b) == IF a < b THEN a ELSE b

\* zip(ks, vs): stops at the shorter argument
Zip(ks, vs) == [ i \in 1..Min(Len(ks), Len(vs)) |-> [k |-> ks[i], v |-> vs[i]] ]

Return(val) == [kind |-> "return", value |-> val]

Raise(exc) == [kind |-> "raise", exc |-> exc]

NoResult == [kind |-> "none"]

NoBatch == [n |-> 0, col |-> << >>]

-----------------------------------------------------------------------------
(* DataFrames *)

Columns(df) == DOMAIN df.col

\* df[name] = vals  /  df.loc[:, name] = vals
SetColumn(df, name, vals) ==
    [ df EXCEPT !.col = [ c \in Columns(df) \cup {name} |->
                            IF c = name THEN vals ELSE df.col[c] ] ]

\* variant: absent labels are reindexed to NaN columns instead of raising
MissingLabelsReindexed(df, names) == {}

\* labels of names that df.loc[:, names] does not find (KeyError when not empty)
MissingLabels(df, names) == { names[j] : j \in DOMAIN names } \ Columns(df)

Cell(df, c, i) == IF c \in Columns(df) THEN df.col[c][i] ELSE NaN

\* df.loc[:, names] : the rows of df over the named columns, in the order of names
Loc(df, names) == [ i \in 1..df.n |-> [ j \in DOMAIN names |-> Cell(df, names[j], i) ] ]

\* variant: the records come out last row first
ToDictRecordsReversed(df, names) ==
    [ i \in 1..df.n |->
        [ j \in DOMAIN names |-> [k |-> names[j], v |-> Cell(df, names[j], df.n + 1 - i)] ] ]

\* df.to_dict(orient="records")
ToDictRecords(df, names) ==
    [ i \in 1..df.n |-> [ j \in DOMAIN names |-> [k |-> names[j], v |-> Cell(df, names[j], i)] ] ]

-----------------------------------------------------------------------------
(* The model artifacts (content of model_artifacts.pkl) *)

\* model: probability level = b + sum of w[j] * x[j] over the feature columns in order
\* explainer: attribution of feature j for a row = w[j] * x[j] - base[j]
Artifacts ==
    { [ model |-> [w |-> <<1, 1>>, b |-> 0], threshold |-> 1,
        features |-> <<"int_rate", "rent_indicator">>,
        explainer |-> [w |-> <<1, 1>>, base |-> <<0, 1>>],
        rent_ratio |-> "rent_ratio", invgauss_args |-> "invgauss_args",
        int_rate_mean |-> "int_rate_mean" ],
      [ model |-> [w |-> <<2, 1>>, b |-> 0], threshold |-> 2,
        features |-> <<"rent_indicator", "int_rate">>,
        explainer |-> [w |-> <<2, 1>>, base |-> <<1, 0>>],
        rent_ratio |-> "rent_ratio", invgauss_args |-> "invgauss_args",
        int_rate_mean |-> "int_rate_mean" ],
      [ model |-> [w |-> <<1>>, b |-> 1], threshold |-> 1,
        features |-> <<"rent_indicator">>,
        explainer |-> [w |-> <<1>>, base |-> <<0>>],
        rent_ratio |-> "rent_ratio", invgauss_args |-> "invgauss_args",
        int_rate_mean |-> "int_rate_mean" ] }

Unset == [unset |-> TRUE]

\* the globals as begin() binds them
LoadedGlobals(a) ==
    [ explainer |-> a.explainer, model |-> a.model, threshold |-> a.threshold,
      features |-> a.features, rent_ratio |-> a.rent_ratio,
      gamma_args |-> a.invgauss_args, int_rate_mean |-> a.int_rate_mean ]

RECURSIVE Dot(_, _)
Dot(w, x) == IF w = << >> \/ x = << >> THEN 0
             ELSE Dot(Tail(w), Tail(x)) + Head(w) * Head(x)

\* model.predict_proba(X)[:, 1]
PredictProba(m, X) == [ i \in DOMAIN X |-> m.b + Dot(m.w, X[i]) ]

\* explainer.shap_values(X)
ShapValues(e, X) == [ i \in DOMAIN X |-> [ j \in DOMAIN X[i] |-> e.w[j] * X[i][j] - e.base[j] ] ]

-----------------------------------------------------------------------------
(* Input batches *)

\* record ids are distinct: numbered up or down the batch
Ids(n) == { [ i \in 1..n |-> i ], [ i \in 1..n |-> n + 1 - i ] }
HomeOwnerships == {"RENT", "OWN"}
IntRates == {0, 1}
LoanStatuses == {0, 1, NaN}
FortyPlus == {"Under Forty"}

RawColumns == {"id", "home_ownership", "int_rate", "loan_status", "forty_plus_indicator"}

\* columns a batch may come without
MissingChoices ==
    { {}, {"loan_status"}, {"int_rate"}, {"int_rate", "loan_status"},
      {"home_ownership"}, {"forty_plus_indicator"} }

Batches ==
    UNION { UNION { { [ n |-> n,
                        col |-> [ c \in RawColumns \ missing |->
                                    CASE c = "id" -> ids
                                      [] c = "home_ownership" -> homes
                                      [] c = "int_rate" -> rates
                                      [] c = "loan_status" -> labels
                                      [] c = "forty_plus_indicator" -> forty ] ] :
                        ids \in Ids(n), homes \in [1..n -> HomeOwnerships],
                        rates \in [1..n -> IntRates], labels \in [1..n -> LoanStatuses],
                        forty \in [1..n -> FortyPlus] } :
                    missing \in MissingChoices } :
            n \in 1..MaxBatch }

-----------------------------------------------------------------------------
(* score *)

\* datum.home_ownership.isin(["RENT"]).astype(int)
RentIndicator(df) == [ i \in 1..df.n |-> IF df.col["home_ownership"][i] = "RENT" THEN 1 ELSE 0 ]

\* prediction(data)
prediction(g, df) == PredictProba(g.model, Loc(df, g.features))

\* variant: the boundary value predicts 1
ScoreLabelInclusive(x, threshold) == IF x >= threshold THEN 1 ELSE 0

\* lambda x: x > threshold
ScoreLabel(x, threshold) == IF x > threshold THEN 1 ELSE 0

\* variant: the probabilities overwrite an input column
ScoreProbabilityColumnClobbering == "int_rate"

\* the column line 39 assigns
ScoreProbabilityColumn == "probability"

ScoreProjection == <<"id", "probability", "prediction">>

\* score(datum): the DataFrame as the call leaves it, and the call's outcome
score(g, datum) ==
    IF "home_ownership" \notin Columns(datum)
    THEN [df |-> datum, out |-> Raise("AttributeError")]
    ELSE LET d1 == SetColumn(datum, "rent_indicator", RentIndicator(datum)) IN
         IF MissingLabels(d1, g.features) # {}
         THEN [df |-> d1, out |-> Raise("KeyError")]
         ELSE LET d2 == SetColumn(d1, ScoreProbabilityColumn, prediction(g, d1)) IN
              IF "probability" \notin Columns(d2)
              THEN [df |-> d2, out |-> Raise("AttributeError")]
              ELSE LET d3 == SetColumn(d2, "prediction",
                                 [ i \in 1..d2.n |->
                                     ScoreLabel(d2.col["probability"][i], g.threshold) ]) IN
                   IF MissingLabels(d3, ScoreProjection) # {}
                   THEN [df |-> d3, out |-> Raise("KeyError")]
                   ELSE [df |-> d3, out |-> Return(ToDictRecords(d3, ScoreProjection))]

-----------------------------------------------------------------------------
(* Statistics Library: sklearn.metrics *)

Count(S) == Cardinality(S)

Rows(y) == DOMAIN y

HasNaN(y) == \E i \in Rows(y) : y[i] = NaN

RECURSIVE SortedSeq(_)
\* the members of a set of integers, ascending
SortedSeq(S) ==
    IF S = {} THEN << >>
    ELSE LET m == CHOOSE x \in S : \A y \in S : x <= y
         IN <<m>> \o SortedSeq(S \ {m})

\* f1_score(y_true, y_pred), pos_label = 1, zero division gives 0
f1_score(y_true, y_pred) ==
    LET tp == Count({ i \in Rows(y_true) : y_true[i] = 1 /\ y_pred[i] = 1 })
        fp == Count({ i \in Rows(y_true) : y_true[i] # 1 /\ y_pred[i] = 1 })
        fn == Count({ i \in Rows(y_true) : y_true[i] = 1 /\ y_pred[i] # 1 })
    IN IF 2 * tp + fp + fn = 0 THEN [num |-> 0, den |-> 1]
       ELSE [num |-> 2 * tp, den |-> 2 * tp + fp + fn]

\* the labels confusion_matrix uses when none are passed: those present in y_true or y_pred
unique_labels(y_true, y_pred) ==
    SortedSeq({ y_true[i] : i \in Rows(y_true) } \cup { y_pred[i] : i \in Rows(y_pred) })

\* confusion_matrix(y_true, y_pred): rows are true classes, columns predicted classes
confusion_matrix(y_true, y_pred) ==
    LET ls == unique_labels(y_true, y_pred) IN
    [ a \in DOMAIN ls |-> [ b \in DOMAIN ls |->
        Count({ i \in Rows(y_true) : y_true[i] = ls[a] /\ y_pred[i] = ls[b] }) ] ]

\* roc_curve(y_true, y_score): the curve is left uninterpreted
roc_curve(y_true, y_score) == [fn |-> "roc_curve", y_true |-> y_true, y_score |-> y_score]

SingleClass(y_true) == Count({ y_true[i] : i \in Rows(y_true) }) # 2

\* roc_auc_score(y_true, y_score) on two classes: the share of (positive, negative)
\* pairs ranked correctly, ties counted half
roc_auc_score(y_true, y_score) ==
    LET pos == { i \in Rows(y_true) : y_true[i] = 1 }
        neg == { i \in Rows(y_true) : y_true[i] = 0 }
        gt == Count({ p \in pos \X neg : y_score[p[1]] > y_score[p[2]] })
        eq == Count({ p \in pos \X neg : y_score[p[1]] = y_score[p[2]] })
    IN [num |-> 2 * gt + eq, den |-> 2 * Count(pos) * Count(neg)]

-----------------------------------------------------------------------------
(* metrics and its helpers *)

\* lambda x: threshold > x
MetricsLabel(x, threshold) == IF threshold > x THEN 1 ELSE 0

is_validated(df) == "loan_status" \in Columns(df)

Labels == <<"Charged Off", "Fully Paid">>

\* matrix_to_dicts(matrix, labels): a row per label, or IndexError past the last row
matrix_to_dicts(matrix, labels) ==
    IF \E idx \in DOMAIN labels : idx \notin DOMAIN matrix
    THEN Raise("IndexError")
    ELSE Return([ idx \in DOMAIN labels |-> DictFromItems(Zip(labels, matrix[idx])) ])

BiasColumns == <<"predictions", "loan_status", "forty_plus_indicator">>

\* get_bias_metrics(data): the aequitas tables are left uninterpreted
get_bias_metrics(df) ==
    IF MissingLabels(df, BiasColumns) # {}
    THEN Raise("KeyError")
    ELSE Return(<< [k |-> "absolute_metrics",
                    v |-> [fn |-> "absolute_metrics", scored |-> Loc(df, BiasColumns)]],
                   [k |-> "disparity_metrics",
                    v |-> [fn |-> "disparity_metrics", scored |-> Loc(df, BiasColumns)]] >>)

RECURSIVE SumSeq(_)
SumSeq(s) == IF s = << >> THEN 0 ELSE Head(s) + SumSeq(Tail(s))

Abs(x) == IF x < 0 THEN 0 - x ELSE x

\* a <= b for two means kept as fractions
Leq(a, b) == a.num * b.den <= b.num * a.den

RECURSIVE Insert(_, _)
\* puts item after every item of the sorted sequence s whose value is not greater
Insert(s, item) ==
    IF s = << >> THEN <<item>>
    ELSE IF Leq(s[Len(s)].v, item.v) THEN Append(s, item)
    ELSE Append(Insert(SubSeq(s, 1, Len(s) - 1), item), s[Len(s)])

\* variant: the items are left in feature order
SortedByValueSkipped(items) == items

RECURSIVE SortedByValue(_)
\* sorted(items, key=lambda x: x[1]) : ascending and stable
SortedByValue(items) ==
    IF items = << >> THEN << >>
    ELSE Insert(SortedByValue(SubSeq(items, 1, Len(items) - 1)), items[Len(items)])

\* np.mean(abs(shap_values), axis=0).tolist()
MeanAbs(sv, width) ==
    [ j \in 1..width |-> [num |-> SumSeq([ i \in DOMAIN sv |-> Abs(sv[i][j]) ]),
                          den |-> Len(sv)] ]

\* get_shap_values(data)
get_shap_values(g, df) ==
    LET sv == ShapValues(g.explainer, Loc(df, g.features))
        means == MeanAbs(sv, Len(g.features))
        shap_values == DictFromItems(Zip(g.features, means))
    IN DictFromItems(SortedByValue(shap_values))

\* get_drift_metrics(data): each p-value is the test applied to its arguments
get_drift_metrics(g, df) ==
    IF "int_rate" \notin Columns(df)
    THEN Raise("AttributeError")
    ELSE Return(<<
        [k |-> "renters_binom_pvalue",
         v |-> [fn |-> "binom_test", x |-> SumSeq(df.col["rent_indicator"]), n |-> df.n,
                p |-> g.rent_ratio]],
        [k |-> "output_logprob_pvalue",
         v |-> [fn |-> "kstest", probs |-> prediction(g, df), args |-> g.gamma_args]],
        [k |-> "int_rate_ttest_pvalue",
         v |-> [fn |-> "ttest_1samp", a |-> df.col["int_rate"], popmean |-> g.int_rate_mean]] >>)

\* variant: the bias section is computed but not stored
validated_sections_without_bias(g, lib, df) ==
    LET y_true == df.col["loan_status"]
        y_pred == df.col["predictions"]
        probs == df.col["probabilities"]
    IN IF HasNaN(y_true) THEN Raise("ValueError")
       ELSE LET cm == matrix_to_dicts(confusion_matrix(y_true, y_pred), Labels) IN
            IF cm.kind = "raise" THEN cm
            ELSE IF SingleClass(y_true) /\ lib = "raises" THEN Raise("ValueError")
            ELSE LET auc_val == IF SingleClass(y_true) THEN [nan |-> TRUE]
                                ELSE roc_auc_score(y_true, probs)
                     m1 == DictSet(EmptyDict, "f1_score", f1_score(y_true, y_pred))
                     m2 == DictSet(m1, "confusion_matrix", cm.value)
                     m3 == DictSet(m2, "auc", auc_val)
                     m4 == DictSet(m3, "ROC", roc_curve(y_true, probs))
                     bias == get_bias_metrics(df)
                 IN IF bias.kind = "raise" THEN bias
                    ELSE Return(m4)

\* lines 56-72 of metrics: the sections computed behind the validation gate
validated_sections(g, lib, df) ==
    LET y_true == df.col["loan_status"]
        y_pred == df.col["predictions"]
        probs == df.col["probabilities"]
    IN IF HasNaN(y_true) THEN Raise("ValueError")
       ELSE LET cm == matrix_to_dicts(confusion_matrix(y_true, y_pred), Labels) IN
            IF cm.kind = "raise" THEN cm
            ELSE IF SingleClass(y_true) /\ lib = "raises" THEN Raise("ValueError")
            ELSE LET auc_val == IF SingleClass(y_true) THEN [nan |-> TRUE]
                                ELSE roc_auc_score(y_true, probs)
                     m1 == DictSet(EmptyDict, "f1_score", f1_score(y_true, y_pred))
                     m2 == DictSet(m1, "confusion_matrix", cm.value)
                     m3 == DictSet(m2, "auc", auc_val)
                     m4 == DictSet(m3, "ROC", roc_curve(y_true, probs))
                     bias == get_bias_metrics(df)
                 IN IF bias.kind = "raise" THEN bias
                    ELSE Return(DictSet(m4, "bias", bias.value))

\* metrics(data): the DataFrame as the call leaves it, and the call's outcome
metrics(g, lib, df0) ==
    IF "home_ownership" \notin Columns(df0)
    THEN [df |-> df0, out |-> Raise("AttributeError")]
    ELSE LET d1 == SetColumn(df0, "rent_indicator", RentIndicator(df0)) IN
         IF MissingLabels(d1, g.features) # {}
         THEN [df |-> d1, out |-> Raise("KeyError")]
         ELSE LET d2 == SetColumn(d1, "probabilities", prediction(g, d1))
                  d3 == SetColumn(d2, "predictions",
                            [ i \in 1..d2.n |->
                                MetricsLabel(d2.col["probabilities"][i], g.threshold) ])
                  gated == IF is_validated(d3) THEN validated_sections(g, lib, d3)
                           ELSE Return(EmptyDict)
                  drift == get_drift_metrics(g, d3)
              IN IF gated.kind = "raise" THEN [df |-> d3, out |-> gated]
                 ELSE IF drift.kind = "raise" THEN [df |-> d3, out |-> drift]
                 ELSE [df |-> d3,
                       out |-> Return(DictSet(DictSet(gated.value, "drift_metrics", drift.value),
                                              "shap", get_shap_values(g, d3)))]

-----------------------------------------------------------------------------
(* State machine *)

Init ==
    /\ artifacts \in Artifacts
    /\ sklearn \in {"raises", "nan"}
    /\ loaded = FALSE
    /\ globals = Unset
    /\ data = NoBatch
    /\ orig = NoBatch
    /\ lastCall = "none"
    /\ result = NoResult

Begin ==
    /\ ~loaded
    /\ loaded' = TRUE
    /\ globals' = LoadedGlobals(artifacts)
    /\ UNCHANGED <<artifacts, sklearn, data, orig, lastCall, result>>

ReadBatch ==
    /\ loaded
    /\ data = NoBatch
    /\ \E b \in Batches :
          /\ data' = b
          /\ orig' = b
    /\ UNCHANGED <<artifacts, sklearn, loaded, globals, lastCall, result>>

Score ==
    /\ loaded
    /\ data # NoBatch
    /\ LET r == score(globals, data) IN
          /\ data' = r.df
          /\ result' = r.out
    /\ lastCall' = "score"
    /\ UNCHANGED <<artifacts, sklearn, loaded, globals, orig>>

Metrics ==
    /\ loaded
    /\ data # NoBatch
    /\ LET r == metrics(globals, sklearn, data) IN
          /\ data' = r.df
          /\ result' = r.out
    /\ lastCall' = "metrics"
    /\ UNCHANGED <<artifacts, sklearn, loaded, globals, orig>>

Next == Begin \/ ReadBatch \/ Score \/ Metrics

Spec == Init /\ [][Next]_vars

-----------------------------------------------------------------------------
(* Properties *)

Returned(call) == lastCall = call /\ result.kind = "return"

\* the batch as read, with the Feature Deriver's column
Derived(df) == SetColumn(df, "rent_indicator", RentIndicator(df))

\* every column the two entry points read is there
Complete(df) == {"id", "home_ownership", "int_rate", "forty_plus_indicator"} \subseteq Columns(df)

HasGroundTruth(df, i) == Cell(df, "loan_status", i) \in {0, 1}

EveryRecordLabelled(df) == \A i \in 1..df.n : HasGroundTruth(df, i)

PerformanceKeys == {"f1_score", "confusion_matrix", "auc", "ROC"}

\* C1: in what score returns, prediction is 1 exactly when probability is
\* strictly greater than the threshold; probability = threshold gives 0.
C1_ScorePredictionStrict ==
    Returned("score") =>
        \A i \in DOMAIN result.value :
            LET rec == result.value[i] IN
            /\ Get(rec, "prediction") \in {0, 1}
            /\ Get(rec, "prediction") = 1 <=> Get(rec, "probability") > globals.threshold

C1_Witness ==
    /\ Returned("score")
    /\ \E i \in DOMAIN result.value :
          /\ Get(result.value[i], "probability") = globals.threshold
          /\ Get(result.value[i], "prediction") = 0
    /\ \E i \in DOMAIN result.value : Get(result.value[i], "prediction") = 1

\* C2: the label metrics feeds to the performance and fairness computations is 1
\* exactly when the record's probability is strictly greater than the threshold,
\* which is the prediction score gives the record.
C2_MetricsLabelAsScore ==
    (lastCall = "metrics" /\ "predictions" \in Columns(data)) =>
        \A i \in 1..data.n :
            /\ data.col["predictions"][i] = 1 <=> data.col["probabilities"][i] > globals.threshold
            /\ data.col["predictions"][i] = ScoreLabel(data.col["probabilities"][i], globals.threshold)

\* C3 as stated: the report of an unvalidated batch has no `performance` and no
\* `bias` key and has the keys `drift` and `attribution`; the report of a
\* validated batch has all four.
C3_SectionKeysAsStated ==
    Returned("metrics") =>
        IF "loan_status" \in Columns(orig)
        THEN {"performance", "bias", "drift", "attribution"} \subseteq Keys(result.value)
        ELSE /\ Keys(result.value) \cap {"performance", "bias"} = {}
             /\ {"drift", "attribution"} \subseteq Keys(result.value)

\* C3 amended: the report of an unvalidated batch has exactly the keys
\* drift_metrics and shap; the report of a validated batch has the keys f1_score,
\* confusion_matrix, auc, ROC, bias, drift_metrics, shap.
C3_ReportKeys ==
    Returned("metrics") =>
        IF "loan_status" \in Columns(orig)
        THEN KeyOrder(result.value) =
                <<"f1_score", "confusion_matrix", "auc", "ROC", "bias", "drift_metrics", "shap">>
        ELSE KeyOrder(result.value) = <<"drift_metrics", "shap">>

C3_Witness ==
    /\ Returned("metrics")
    /\ "loan_status" \notin Columns(orig)
    /\ Keys(result.value) = {"drift_metrics", "shap"}

C3_WitnessValidated ==
    /\ Returned("metrics")
    /\ "loan_status" \in Columns(orig)
    /\ "bias" \in Keys(result.value)

\* C4: the validation gate is true exactly when every record carries a
\* ground-truth loan_status, and a batch in which only some records carry one is
\* handled as unvalidated: metrics returns a report without the performance and
\* bias sections.
C4_GateEveryRecord ==
    /\ lastCall = "metrics" => (is_validated(data) <=> EveryRecordLabelled(data))
    /\ (/\ lastCall = "metrics"
        /\ Complete(orig)
        /\ ~EveryRecordLabelled(orig)
        /\ \E i \in 1..orig.n : HasGroundTruth(orig, i))
       => /\ result.kind = "return"
          /\ Keys(result.value) \cap (PerformanceKeys \cup {"bias"}) = {}

\* C5: score returns one record per input record, in input order, each with
\* only the fields id, probability, prediction, the id and the probability being
\* those of the input record at that position.
C5_ScoreOneToOne ==
    Returned("score") =>
        /\ Len(result.value) = orig.n
        /\ \A i \in 1..orig.n :
              LET rec == result.value[i] IN
              /\ KeyOrder(rec) = <<"id", "probability", "prediction">>
              /\ Get(rec, "id") = orig.col["id"][i]
              /\ Get(rec, "probability") = prediction(globals, Derived(orig))[i]

C5_Witness ==
    /\ Returned("score")
    /\ Len(result.value) >= 2
    /\ Get(result.value[1], "id") # Get(result.value[2], "id")
    /\ Get(result.value[1], "probability") # Get(result.value[2], "probability")

\* C6: for every validated batch the report's confusion matrix has two rows,
\* each with the keys "Charged Off" and "Fully Paid" in that order, and its four
\* cells sum to the batch size.
C6_ConfusionMatrixShape ==
    (lastCall = "metrics" /\ Complete(orig) /\ is_validated(orig) /\ EveryRecordLabelled(orig)) =>
        /\ result.kind = "return"
        /\ "confusion_matrix" \in Keys(result.value)
        /\ LET cm == Get(result.value, "confusion_matrix") IN
              /\ Len(cm) = 2
              /\ \A r \in 1..2 : KeyOrder(cm[r]) = Labels
              /\ SumSeq([ r \in 1..2 |-> cm[r][1].v + cm[r][2].v ]) = orig.n

OneClass(df, c) == is_validated(df) /\ \A i \in 1..df.n : df.col["loan_status"][i] = c

\* C7: a validated batch whose ground-truth labels are all of one class is not
\* fatal: metrics returns a full report, and the confusion-matrix row of the
\* absent class holds zeros.
C7_SingleClassNotFatal ==
    \A c \in {0, 1} :
        (lastCall = "metrics" /\ Complete(orig) /\ OneClass(orig, c)) =>
            /\ result.kind = "return"
            /\ Keys(result.value) = PerformanceKeys \cup {"bias", "drift_metrics", "shap"}
            /\ LET absent == Get(result.value, "confusion_matrix")[2 - c]
               IN \A j \in DOMAIN absent : absent[j].v = 0

\* a feature of feature_order that the batch, once the Feature Deriver has run,
\* does not have
LacksFeature(df) ==
    \E j \in DOMAIN globals.features : globals.features[j] \notin Columns(df) \cup {"rent_indicator"}

\* C8: when the batch lacks a feature of feature_order, score and metrics raise
\* and return nothing, neither a partial list nor a partial report.
C8_MissingFeatureAllOrNothing ==
    (lastCall \in {"score", "metrics"} /\ LacksFeature(orig)) =>
        /\ result.kind = "raise"
        /\ DOMAIN result = {"kind", "exc"}

C8_Witness ==
    /\ lastCall = "metrics"
    /\ LacksFeature(orig)
    /\ "home_ownership" \in Columns(orig)
    /\ "rent_indicator" \in Columns(data)
    /\ "probabilities" \notin Columns(data)
    /\ result = Raise("KeyError")

\* C9: the attribution mapping has every feature of feature_order once as its
\* keys, and its values come in non-decreasing order.
C9_AttributionSorted ==
    Returned("metrics") =>
        LET shap == Get(result.value, "shap") IN
        /\ Len(shap) = Len(globals.features)
        /\ Keys(shap) = { globals.features[j] : j \in DOMAIN globals.features }
        /\ \A i \in 1..(Len(shap) - 1) : Leq(shap[i].v, shap[i + 1].v)

C9_Witness ==
    /\ Returned("metrics")
    /\ LET shap == Get(result.value, "shap") IN
          /\ Len(shap) = 2
          /\ KeyOrder(shap) # globals.features
          /\ ~Leq(shap[2].v, shap[1].v)

\* C10: once begin has run, no call changes a global, and every call's outcome
\* is the one the call has on the batch as it was read, whatever calls came
\* before on the same DataFrame.
C10_StatelessCalls ==
    loaded =>
        /\ globals = LoadedGlobals(artifacts)
        /\ lastCall = "score" => result = score(globals, orig).out
        /\ lastCall = "metrics" => result = metrics(globals, sklearn, orig).out

C10_Witness ==
    /\ Returned("metrics")
    /\ {"prediction", "predictions"} \subseteq Columns(data)
    /\ data # metrics(globals, sklearn, orig).df
    /\ globals = LoadedGlobals(artifacts)

====
